---- MODULE Spec2Model ----
(***************************************************************************)
(* A state-machine model of the trust-and-storage layer of                 *)
(* libsignal-protocol-rs: the pre-key and identity store adapters (the      *)
(* extern "C" callbacks the engine invokes), the StoreContext facade and    *)
(* its reference-counted lifetime, and the status-code handling of the     *)
(* key operations.                                                          *)
(***************************************************************************)
EXTENDS Integers, Sequences, FiniteSets, TLC

VARIABLES
    preKeys,      \* the application's PreKeyStore: id -> Option<body>
    identities,   \* the application's IdentityKeyStore: address -> Option<key>
    metadata,     \* non-key metadata the identity store keeps per address
    last,         \* the last callback call as the engine saw it
    stored,       \* what the engine has stored through store_pre_key and not
                  \* removed since, and the ids it has removed
    ctxHandles,   \* Rc<ContextInner> held by the application (Context values)
    storeCtx,     \* the StoreContext: state, number of clones, boxes freed
    records,      \* SessionRecord values alive (each holds an Rc<ContextInner>)
    engine,       \* the engine context: alive or torn down, teardown count
    sessions,     \* the session store: addresses that have a stored session
    facade,       \* the last StoreContext or key operation and its result,
                  \* while the engine has made no callback call since
    misuse,       \* TRUE once a callback ran on a freed box
    compared      \* the last comparison of three keys and its results

vars == <<preKeys, identities, metadata, last, stored, ctxHandles, storeCtx,
          records, engine, sessions, facade, misuse, compared>>

----------------------------------------------------------------------------
(* Bounds of the model *)

MaxBodyLen == 2
MaxKeyLen == 1
MaxHandles == 2      \* Context values the application holds at once
MaxClones == 2       \* clones of the StoreContext alive at once
MaxRecords == 1      \* SessionRecord values alive at once
StatusMargin == 2    \* engine statuses tried beyond the code table

(* Sample values *)
ByteValues == {170, 187}
PreKeyIds == {1, 2}
Addresses == {"alice.1", "bob.1"}

RECURSIVE SeqsUpTo(_, _)
SeqsUpTo(S, n) ==
    IF n = 0 THEN {<<>>}
    ELSE LET shorter == SeqsUpTo(S, n - 1)
         IN  shorter \cup {Append(s, b) : s \in shorter, b \in S}

Bodies == SeqsUpTo(ByteValues, MaxBodyLen)
KeyPayloads == SeqsUpTo(ByteValues, MaxKeyLen)
ShortPayloads == {<<>>, <<170>>}

(* Option<bytes> and raw pointers to engine buffers *)
None == [some |-> FALSE, v |-> <<>>]
Some(b) == [some |-> TRUE, v |-> b]
Null == [null |-> TRUE, bytes |-> <<>>]
Ptr(b) == [null |-> FALSE, bytes |-> b]

----------------------------------------------------------------------------
(* Engine status codes and the InternalError code table *)

SG_SUCCESS == 0
SG_ERR_NOMEM == -12
SG_ERR_INVAL == -22
SG_ERR_UNKNOWN == -1000
SG_ERR_INVALID_KEY == -1002
SG_ERR_INVALID_KEY_ID == -1003
SG_ERR_UNTRUSTED_IDENTITY == -1010

InternalErrors ==
    {"NoMemory", "InvalidArgument", "Unknown", "InvalidKey", "InvalidKeyId",
     "UntrustedIdentity"}

InternalError_code(e) ==
    CASE e = "NoMemory" -> SG_ERR_NOMEM
      [] e = "InvalidArgument" -> SG_ERR_INVAL
      [] e = "Unknown" -> SG_ERR_UNKNOWN
      [] e = "InvalidKey" -> SG_ERR_INVALID_KEY
      [] e = "InvalidKeyId" -> SG_ERR_INVALID_KEY_ID
      [] e = "UntrustedIdentity" -> SG_ERR_UNTRUSTED_IDENTITY

(* InternalError::from_error_code: Some(kind) for a code of the table *)
from_error_code(code) ==
    IF \E e \in InternalErrors : InternalError_code(e) = code
    THEN [some |-> TRUE,
          v |-> CHOOSE e \in InternalErrors : InternalError_code(e) = code]
    ELSE [some |-> FALSE, v |-> "Unknown"]

(* signal_catch_unwind!: a panic of the body makes the callback return
   InternalError::Unknown.code(); signal_assert!: a failed assertion makes
   the callback return a failure status before it touches anything. *)
signal_catch_unwind_status == InternalError_code("Unknown")
signal_assert_status == InternalError_code("Unknown")

(* What an application implementation may do when called: answer, return an
   error, or panic. *)
Faults == {"none", "err", "panic"}

Ok(v, st) == [tag |-> "Ok", val |-> v, err |-> "Unknown", store |-> st]
Err(e, st) == [tag |-> "Err", val |-> None, err |-> e, store |-> st]
Panic(st) == [tag |-> "Panic", val |-> None, err |-> "Unknown", store |-> st]

----------------------------------------------------------------------------
(* The application's pre-key store: an in-memory map *)

PreKeyStore_load(st, id, fault) ==
    IF fault = "panic" THEN Panic(st)
    ELSE IF fault = "err" THEN Err("io_other", st)
    ELSE IF st[id].some THEN Ok(st[id], st)
    ELSE Err("io_not_found", st)

PreKeyStore_store(st, id, body, fault) ==
    IF fault = "panic" THEN Panic(st)
    ELSE IF fault = "err" THEN Err("NoMemory", st)
    ELSE Ok(None, [st EXCEPT ![id] = Some(body)])

PreKeyStore_contains(st, id, fault) ==
    IF fault = "panic" THEN Panic(st)
    ELSE Ok([some |-> st[id].some, v |-> <<>>], st)

PreKeyStore_remove(st, id, fault) ==
    IF fault = "panic" THEN Panic(st)
    ELSE IF fault = "err" THEN Err("NoMemory", st)
    ELSE Ok(None, [st EXCEPT ![id] = None])

----------------------------------------------------------------------------
(* The pre-key callbacks (pre_key_store.rs).  Each returns the status the
   engine receives, the output slot as the callback leaves it, and the
   store as the call leaves it. *)

Reply(status, out, st) ==
    [status |-> status, out |-> out, out2 |-> Null, regid |-> 0,
     unwound |-> FALSE, store |-> st]

(* load_pre_key handing the engine its empty buffer when the load failed *)
load_pre_key_clobbers(st, slot, id, fault) ==
    LET r == PreKeyStore_load(st, id, fault)
    IN  IF r.tag = "Ok"
        THEN Reply(SG_SUCCESS, Ptr(r.val.v), r.store)
        ELSE IF r.tag = "Panic"
        THEN Reply(signal_catch_unwind_status, Ptr(<<>>), r.store)
        ELSE Reply(InternalError_code("Unknown"), Ptr(<<>>), r.store)

(* user_data is the pointer new_vtable made with Box::into_raw and record is
   the address of an engine variable: neither is ever null. *)
load_pre_key(st, slot, id, fault) ==
    LET r == PreKeyStore_load(st, id, fault)
    IN  IF r.tag = "Panic"
        THEN Reply(signal_catch_unwind_status, slot, r.store)
        ELSE LET got == IF r.tag = "Ok"
                        THEN [ok |-> TRUE, buffer |-> r.val.v]
                        ELSE [ok |-> FALSE, buffer |-> <<>>]
             IN  IF got.ok
                 THEN Reply(SG_SUCCESS, Ptr(got.buffer), r.store)
                 ELSE Reply(InternalError_code("Unknown"), slot, r.store)

(* store_pre_key handing the store one byte less than record_len *)
store_pre_key_short(st, id, recordNull, data, fault) ==
    IF recordNull THEN Reply(signal_assert_status, Null, st)
    ELSE LET r == PreKeyStore_store(st, id,
                                    SubSeq(data, 1, Len(data) - 1), fault)
         IN  IF r.tag = "Panic"
             THEN Reply(signal_catch_unwind_status, Null, r.store)
             ELSE IF r.tag = "Ok" THEN Reply(SG_SUCCESS, Null, r.store)
             ELSE Reply(InternalError_code(r.err), Null, r.store)

store_pre_key(st, id, recordNull, data, fault) ==
    IF recordNull THEN Reply(signal_assert_status, Null, st)
    ELSE LET r == PreKeyStore_store(st, id, data, fault)
         IN  IF r.tag = "Panic"
             THEN Reply(signal_catch_unwind_status, Null, r.store)
             ELSE IF r.tag = "Ok" THEN Reply(SG_SUCCESS, Null, r.store)
             ELSE Reply(InternalError_code(r.err), Null, r.store)

(* contains_pre_key calling the store outside signal_catch_unwind!: the
   panic leaves the callback and no status reaches the engine *)
contains_pre_key_unguarded(st, id, fault) ==
    LET r == PreKeyStore_contains(st, id, fault)
    IN  IF r.tag = "Panic"
        THEN [Reply(0, Null, r.store) EXCEPT !.unwound = TRUE]
        ELSE Reply(IF r.val.some THEN 1 ELSE 0, Null, r.store)

contains_pre_key(st, id, fault) ==
    LET r == PreKeyStore_contains(st, id, fault)
    IN  IF r.tag = "Panic"
        THEN Reply(signal_catch_unwind_status, Null, r.store)
        ELSE Reply(IF r.val.some THEN 1 ELSE 0, Null, r.store)

remove_pre_key(st, id, fault) ==
    LET r == PreKeyStore_remove(st, id, fault)
    IN  IF r.tag = "Panic"
        THEN Reply(signal_catch_unwind_status, Null, r.store)
        ELSE IF r.tag = "Ok" THEN Reply(SG_SUCCESS, Null, r.store)
        ELSE Reply(InternalError_code(r.err), Null, r.store)

----------------------------------------------------------------------------
(* The application's identity store: an in-memory map from address to the
   trusted key, with a "seen" mark per address as its non-key metadata. *)

IdStore(keys, meta) == [keys |-> keys, meta |-> meta]

IdentityKeyStore_identity_key_pair(st, fault) ==
    IF fault = "panic" THEN Panic(st)
    ELSE IF fault = "err" THEN Err("InvalidKey", st)
    ELSE [tag |-> "Ok", val |-> Some(<<170>>), val2 |-> Some(<<187>>),
          err |-> "Unknown", store |-> st]

IdentityKeyStore_local_registration_id(st, fault) ==
    IF fault = "panic" THEN Panic(st)
    ELSE IF fault = "err" THEN Err("Unknown", st)
    ELSE [tag |-> "Ok", val |-> None, id |-> 42, err |-> "Unknown",
          store |-> st]

IdentityKeyStore_is_trusted_identity(st, address, identity_key, fault) ==
    IF fault = "panic" THEN Panic(st)
    ELSE IF fault = "err" THEN Err("NoMemory", st)
    ELSE LET trusted == IF st.keys[address].some
                        THEN st.keys[address].v = identity_key
                        ELSE TRUE
         IN  Ok([some |-> trusted, v |-> <<>>], st)

IdentityKeyStore_get_identity(st, address, fault) ==
    IF fault = "panic" THEN Panic(st)
    ELSE IF fault = "err" THEN Err("NoMemory", st)
    ELSE Ok(st.keys[address], st)

IdentityKeyStore_save_identity(st, address, identity_key, fault) ==
    IF fault = "panic" THEN Panic(st)
    ELSE IF fault = "err" THEN Err("NoMemory", st)
    ELSE IF identity_key = <<>>
    THEN Ok(None, IdStore([st.keys EXCEPT ![address] = None], st.meta))
    ELSE Ok(None, IdStore([st.keys EXCEPT ![address] = Some(identity_key)],
                          [st.meta EXCEPT ![address] = TRUE]))

----------------------------------------------------------------------------
(* The identity callbacks (identity_key_store.rs) *)

IReply(status, out, out2, regid, st) ==
    [status |-> status, out |-> out, out2 |-> out2, regid |-> regid,
     unwound |-> FALSE, store |-> st]

get_identity_key_pair(st, public_data, private_data, fault) ==
    LET r == IdentityKeyStore_identity_key_pair(st, fault)
    IN  IF r.tag = "Panic"
        THEN IReply(signal_catch_unwind_status, public_data, private_data, 0,
                    r.store)
        ELSE IF r.tag = "Ok"
        THEN IReply(SG_SUCCESS, Ptr(r.val.v), Ptr(r.val2.v), 0, r.store)
        ELSE IReply(InternalError_code(r.err), public_data, private_data, 0,
                    r.store)

get_local_registration_id(st, registration_id, fault) ==
    LET r == IdentityKeyStore_local_registration_id(st, fault)
    IN  IF r.tag = "Panic"
        THEN IReply(signal_catch_unwind_status, Null, Null, registration_id,
                    r.store)
        ELSE IF r.tag = "Ok"
        THEN IReply(SG_SUCCESS, Null, Null, r.id, r.store)
        ELSE IReply(InternalError_code(r.err), Null, Null, registration_id,
                    r.store)

(* save_identity returning success for an empty key without calling the
   store *)
save_identity_skips_empty(st, address, keyNull, data, fault) ==
    LET key == IF keyNull THEN <<>> ELSE data
        r == IdentityKeyStore_save_identity(st, address, key, fault)
    IN  IF key = <<>> THEN IReply(SG_SUCCESS, Null, Null, 0, st)
        ELSE IF r.tag = "Panic"
        THEN IReply(signal_catch_unwind_status, Null, Null, 0, r.store)
        ELSE IF r.tag = "Ok" THEN IReply(SG_SUCCESS, Null, Null, 0, r.store)
        ELSE IReply(InternalError_code(r.err), Null, Null, 0, r.store)

(* key_data may be null; otherwise the key is the key_len bytes it points
   to, which the model passes as data. *)
save_identity(st, address, keyNull, data, fault) ==
    LET key == IF keyNull THEN <<>> ELSE data
        r == IdentityKeyStore_save_identity(st, address, key, fault)
    IN  IF r.tag = "Panic"
        THEN IReply(signal_catch_unwind_status, Null, Null, 0, r.store)
        ELSE IF r.tag = "Ok" THEN IReply(SG_SUCCESS, Null, Null, 0, r.store)
        ELSE IReply(InternalError_code(r.err), Null, Null, 0, r.store)

(* is_trusted_identity answering SG_SUCCESS for every Ok, as the other
   callbacks do *)
is_trusted_identity_success(st, address, keyNull, data, fault) ==
    IF keyNull THEN IReply(signal_assert_status, Null, Null, 0, st)
    ELSE LET r == IdentityKeyStore_is_trusted_identity(st, address, data,
                                                       fault)
         IN  IF r.tag = "Panic"
             THEN IReply(signal_catch_unwind_status, Null, Null, 0, r.store)
             ELSE IF r.tag = "Ok"
             THEN IReply(SG_SUCCESS, Null, Null, 0, r.store)
             ELSE IReply(InternalError_code(r.err), Null, Null, 0, r.store)

is_trusted_identity(st, address, keyNull, data, fault) ==
    IF keyNull THEN IReply(signal_assert_status, Null, Null, 0, st)
    ELSE LET r == IdentityKeyStore_is_trusted_identity(st, address, data,
                                                       fault)
         IN  IF r.tag = "Panic"
             THEN IReply(signal_catch_unwind_status, Null, Null, 0, r.store)
             ELSE IF r.tag = "Ok"
             THEN IReply(IF r.val.some THEN 1 ELSE 0, Null, Null, 0, r.store)
             ELSE IReply(InternalError_code(r.err), Null, Null, 0, r.store)

get_identity(st, address, identity_data, fault) ==
    LET r == IdentityKeyStore_get_identity(st, address, fault)
    IN  IF r.tag = "Panic"
        THEN IReply(signal_catch_unwind_status, identity_data, Null, 0,
                    r.store)
        ELSE IF r.tag = "Ok"
        THEN IF r.val.some
             THEN IReply(SG_SUCCESS, Ptr(r.val.v), Null, 0, r.store)
             ELSE IReply(0, identity_data, Null, 0, r.store)
        ELSE IReply(InternalError_code(r.err), identity_data, Null, 0,
                    r.store)

----------------------------------------------------------------------------
(* The engine calling the callbacks.  A callback runs only inside an engine
   operation made through a live StoreContext handle. *)

NoAddress == "none"
EngineSlots == {Null, Ptr(<<187>>)}

Call(op, id, addr, data, null, fault, slot, slot2, reg, r) ==
    [op |-> op, id |-> id, addr |-> addr, data |-> data, null |-> null,
     fault |-> fault, slot |-> slot, slot2 |-> slot2, reg |-> reg,
     status |-> r.status, out |-> r.out, out2 |-> r.out2, regid |-> r.regid,
     unwound |-> r.unwound]

NoCall ==
    [op |-> "none", id |-> 0, addr |-> NoAddress, data |-> <<>>,
     null |-> FALSE, fault |-> "none", slot |-> Null, slot2 |-> Null,
     reg |-> 0, status |-> 0, out |-> Null, out2 |-> Null, regid |-> 0,
     unwound |-> FALSE]

(* Errors the Rust API returns *)

NoError == [kind |-> "none", text |-> "", code |-> 0]
InternalError(e) == [kind |-> "InternalError", text |-> e, code |-> 0]
err_msg(text) == [kind |-> "Message", text |-> text, code |-> 0]
format_err(text, code) == [kind |-> "Message", text |-> text, code |-> code]

NoFacade ==
    [op |-> "none", addr |-> NoAddress, fault |-> "none", status |-> 0,
     tag |-> "none", val |-> None, err |-> NoError]

Facade(op, addr, fault, r) ==
    [op |-> op, addr |-> addr, fault |-> fault, status |-> 0,
     tag |-> r.tag, val |-> r.val, err |-> r.err]

EngineCanCall == storeCtx.clones > 0 /\ ~last.unwound

Record(call) ==
    IF call.op = "store_pre_key" /\ call.status = SG_SUCCESS
    THEN [body |-> [stored.body EXCEPT ![call.id] = Some(call.data)],
          removed |-> stored.removed \ {call.id}]
    ELSE IF call.op = "remove_pre_key" /\ call.status = SG_SUCCESS
    THEN [body |-> [stored.body EXCEPT ![call.id] = None],
          removed |-> IF stored.body[call.id].some
                      THEN stored.removed \cup {call.id}
                      ELSE stored.removed]
    ELSE stored

PreKeyStep(r, call) ==
    /\ EngineCanCall
    /\ preKeys' = r.store
    /\ last' = call
    /\ stored' = Record(call)
    /\ facade' = NoFacade
    /\ misuse' = (misuse \/ storeCtx.preKeyFreed > 0)
    /\ UNCHANGED <<identities, metadata, ctxHandles, storeCtx, records,
                   engine, sessions, compared>>

IdentityStep(r, call) ==
    /\ EngineCanCall
    /\ identities' = r.store.keys
    /\ metadata' = r.store.meta
    /\ last' = call
    /\ facade' = NoFacade
    /\ misuse' = (misuse \/ storeCtx.identityFreed > 0)
    /\ UNCHANGED <<preKeys, stored, ctxHandles, storeCtx, records, engine,
                   sessions, compared>>

LoadPreKey ==
    \E id \in PreKeyIds, slot \in EngineSlots, fault \in Faults :
        LET r == load_pre_key(preKeys, slot, id, fault)
        IN  PreKeyStep(r, Call("load_pre_key", id, NoAddress, <<>>, FALSE,
                               fault, slot, Null, 0, r))

StorePreKey(payloads) ==
    \E id \in PreKeyIds, recordNull \in BOOLEAN, data \in payloads,
       fault \in Faults :
        LET r == store_pre_key(preKeys, id, recordNull, data, fault)
        IN  /\ recordNull => (data = <<>> /\ fault = "none")
            /\ PreKeyStep(r, Call("store_pre_key", id, NoAddress, data,
                                  recordNull, fault, Null, Null, 0, r))

ContainsPreKey ==
    \E id \in PreKeyIds, fault \in {"none", "panic"} :
        LET r == contains_pre_key(preKeys, id, fault)
        IN  PreKeyStep(r, Call("contains_pre_key", id, NoAddress, <<>>,
                               FALSE, fault, Null, Null, 0, r))

RemovePreKey ==
    \E id \in PreKeyIds, fault \in Faults :
        LET r == remove_pre_key(preKeys, id, fault)
        IN  PreKeyStep(r, Call("remove_pre_key", id, NoAddress, <<>>, FALSE,
                               fault, Null, Null, 0, r))

GetIdentityKeyPair ==
    \E slot \in EngineSlots, slot2 \in EngineSlots, fault \in Faults :
        LET r == get_identity_key_pair(IdStore(identities, metadata), slot,
                                       slot2, fault)
        IN  IdentityStep(r, Call("get_identity_key_pair", 0, NoAddress, <<>>,
                                 FALSE, fault, slot, slot2, 0, r))

GetLocalRegistrationId ==
    \E reg \in {0, 7}, fault \in Faults :
        LET r == get_local_registration_id(IdStore(identities, metadata),
                                           reg, fault)
        IN  IdentityStep(r, Call("get_local_registration_id", 0, NoAddress,
                                 <<>>, FALSE, fault, Null, Null, reg, r))

SaveIdentity(payloads, faults) ==
    \E addr \in Addresses, keyNull \in BOOLEAN, data \in payloads,
       fault \in faults :
        LET r == save_identity(IdStore(identities, metadata), addr, keyNull,
                               data, fault)
        IN  /\ keyNull => data = <<>>
            /\ IdentityStep(r, Call("save_identity", 0, addr, data, keyNull,
                                    fault, Null, Null, 0, r))

IsTrustedIdentity(payloads) ==
    \E addr \in Addresses, keyNull \in BOOLEAN, data \in payloads,
       fault \in Faults :
        LET r == is_trusted_identity(IdStore(identities, metadata), addr,
                                     keyNull, data, fault)
        IN  /\ keyNull => (data = <<>> /\ fault = "none")
            /\ IdentityStep(r, Call("is_trusted_identity", 0, addr, data,
                                    keyNull, fault, Null, Null, 0, r))

GetIdentity ==
    \E addr \in Addresses, slot \in EngineSlots, fault \in Faults :
        LET r == get_identity(IdStore(identities, metadata), addr, slot,
                              fault)
        IN  IdentityStep(r, Call("get_identity", 0, addr, <<>>, FALSE, fault,
                                 slot, Null, 0, r))

----------------------------------------------------------------------------
(* Results of the Rust API *)

ROk(v, st) == [tag |-> "Ok", val |-> v, err |-> NoError, store |-> st]
RErr(e, st) == [tag |-> "Err", val |-> None, err |-> e, store |-> st]

(* c_int::into_result: the error of the code table, or Ok(()) *)
into_result(code) == from_error_code(code)

----------------------------------------------------------------------------
(* The engine's store functions, as the StoreContext reaches them *)

(* signal_protocol_identity_get_identity hands the call to the registered
   get_identity callback and returns its status. *)
signal_protocol_identity_get_identity(st, addr, raw, fault) ==
    get_identity(st, addr, raw, fault)

(* The session store: 1 and the record when a session is stored for addr,
   0 when none is, a failure status when the store fails. *)
SessionStore_load(ss, addr, fault) ==
    IF fault = "err" THEN SG_ERR_NOMEM
    ELSE IF addr \in ss THEN 1 ELSE 0

SessionStore_contains(ss, addr, fault) ==
    IF fault = "err" THEN SG_ERR_NOMEM
    ELSE IF addr \in ss THEN 1 ELSE 0

SessionStore_delete(ss, addr, fault) ==
    IF fault = "err" THEN [status |-> SG_ERR_NOMEM, store |-> ss]
    ELSE [status |-> IF addr \in ss THEN 1 ELSE 0, store |-> ss \ {addr}]

FreshRecord == Some(<<>>)
StoredRecord == Some(<<170>>)

(* signal_protocol_session_load_session: a failure of the store is
   returned; without a stored session a fresh record is created. *)
signal_protocol_session_load_session(ss, addr, fault) ==
    LET result == SessionStore_load(ss, addr, fault)
    IN  IF result < 0 THEN [status |-> result, raw |-> Null]
        ELSE IF result = 0
        THEN [status |-> SG_SUCCESS, raw |-> Ptr(FreshRecord.v)]
        ELSE [status |-> SG_SUCCESS, raw |-> Ptr(StoredRecord.v)]

signal_protocol_session_contains_session(ss, addr, fault) ==
    SessionStore_contains(ss, addr, fault)

signal_protocol_session_delete_session(ss, addr, fault) ==
    SessionStore_delete(ss, addr, fault)

----------------------------------------------------------------------------
(* The StoreContext facade (store_context.rs) *)

(* get_identity swallowing the store's error as "no identity" *)
StoreContext_get_identity_lenient(st, addr, fault) ==
    LET r == signal_protocol_identity_get_identity(st, addr, Null, fault)
    IN  IF r.out.null THEN ROk(None, r.store)
        ELSE ROk(Some(r.out.bytes), r.store)

StoreContext_get_identity(st, addr, fault) ==
    LET r == signal_protocol_identity_get_identity(st, addr, Null, fault)
        e == into_result(r.status)
    IN  IF e.some THEN RErr(InternalError(e.v), r.store)
        ELSE IF r.out.null THEN ROk(None, r.store)
        ELSE ROk(Some(r.out.bytes), r.store)

(* contains_session reading the status as "no session" unless it is 0 *)
StoreContext_contains_session_inverted(ss, addr, fault) ==
    LET code == signal_protocol_session_contains_session(ss, addr, fault)
    IN  IF code = 0 THEN ROk([some |-> TRUE, v |-> <<>>], ss)
        ELSE IF code = 1 THEN ROk([some |-> FALSE, v |-> <<>>], ss)
        ELSE RErr(InternalError(IF from_error_code(code).some
                                THEN from_error_code(code).v
                                ELSE "Unknown"), ss)

(* The match of contains_session on the engine's status *)
contains_session_match(code, ss) ==
    IF code = 0 THEN ROk([some |-> FALSE, v |-> <<>>], ss)
    ELSE IF code = 1 THEN ROk([some |-> TRUE, v |-> <<>>], ss)
    ELSE RErr(InternalError(IF from_error_code(code).some
                            THEN from_error_code(code).v
                            ELSE "Unknown"), ss)

StoreContext_contains_session(ss, addr, fault) ==
    contains_session_match(
        signal_protocol_session_contains_session(ss, addr, fault), ss)

StoreContext_load_session(ss, addr, fault) ==
    LET r == signal_protocol_session_load_session(ss, addr, fault)
        e == into_result(r.status)
    IN  IF e.some THEN RErr(InternalError(e.v), ss)
        ELSE ROk(Some(r.raw.bytes), ss)

StoreContext_delete_session(ss, addr, fault) ==
    LET r == signal_protocol_session_delete_session(ss, addr, fault)
        e == into_result(r.status)
    IN  IF e.some THEN RErr(InternalError(e.v), r.store)
        ELSE ROk(None, r.store)

----------------------------------------------------------------------------
(* Key operations (keys/public.rs).  The engine's curve functions are
   external: the model lets them answer any status. *)

EngineStatuses ==
    (SG_ERR_UNTRUSTED_IDENTITY - StatusMargin) .. (1 + StatusMargin)

KOk == [tag |-> "Ok", val |-> None, err |-> NoError]
KErr(e) == [tag |-> "Err", val |-> None, err |-> e]

(* verify_signature reading every non-zero status as "valid" *)
PublicKey_verify_signature_truthy(result) ==
    IF result # 0 THEN KOk
    ELSE KErr(err_msg("Invalid signature"))

PublicKey_verify_signature(result) ==
    IF result = 1 THEN KOk
    ELSE IF result = 0 THEN KErr(err_msg("Invalid signature"))
    ELSE IF from_error_code(result).some
    THEN KErr(InternalError(from_error_code(result).v))
    ELSE KErr(format_err("Unknown error code: ", result))

VerifySignature ==
    \E result \in EngineStatuses :
        /\ facade.tag # "Crash"
        /\ facade' = [Facade("verify_signature", NoAddress, "none",
                             PublicKey_verify_signature(result))
                        EXCEPT !.status = result]
        /\ UNCHANGED <<preKeys, identities, metadata, last, stored,
                       ctxHandles, storeCtx, records, engine, sessions,
                       misuse, compared>>

(* Statuses at the edges of the code table and of 0 and 1 *)
BoundaryStatuses ==
    {c + d : c \in {InternalError_code(e) : e \in InternalErrors} \cup {0, 1},
             d \in (0 - StatusMargin) .. StatusMargin}

(* `x as usize` for a c_int x on a 64-bit target: the sign-extended two's
   complement value, as four 16-bit limbs, least significant first. *)
as_usize(x) ==
    LET q1 == x \div 65536
        q2 == q1 \div 65536
        q3 == q2 \div 65536
    IN  <<x % 65536, q1 % 65536, q2 % 65536, q3 % 65536>>

usize_is_zero(n) == \A i \in 1..Len(n) : n[i] = 0

(* What the engine's curve_calculate_agreement may return: the length of
   the shared secret, or a status that is zero or negative. *)
AgreementReturns == BoundaryStatuses \cup {32}

(* calculate_agreement.  With a negative return value the engine has left
   shared_data null, and building a slice and a Box from it is undefined
   behaviour: the call either returns Ok with a Vec of the wrapped length
   or the process crashes. *)
PublicKey_calculate_agreement(ret, ub) ==
    LET length == as_usize(ret)
    IN  IF ~usize_is_zero(length)
        THEN IF ret > 0 \/ ub = "returns"
             THEN [tag |-> "Ok", val |-> Some(length), err |-> NoError]
             ELSE [tag |-> "Crash", val |-> None, err |-> NoError]
        ELSE KErr(err_msg("Error while calculating shared secret"))

CalculateAgreement ==
    \E ret \in AgreementReturns, ub \in {"returns", "crashes"} :
        /\ facade.tag # "Crash"
        /\ facade' = [Facade("calculate_agreement", NoAddress, ub,
                             PublicKey_calculate_agreement(ret, ub))
                        EXCEPT !.status = ret]
        /\ UNCHANGED <<preKeys, identities, metadata, last, stored,
                       ctxHandles, storeCtx, records, engine, sessions,
                       misuse, compared>>

(* verify_mac reading every status but 0 as a valid MAC *)
SignalMessage_verify_mac_truthy(code) ==
    IF code = 0 THEN [tag |-> "Ok", val |-> [some |-> FALSE, v |-> <<>>],
                      err |-> NoError]
    ELSE [tag |-> "Ok", val |-> [some |-> TRUE, v |-> <<>>], err |-> NoError]

(* SignalMessage::verify_mac, from the status signal_message_verify_mac
   returns *)
SignalMessage_verify_mac(code) ==
    IF code = 0 THEN [tag |-> "Ok", val |-> [some |-> FALSE, v |-> <<>>],
                      err |-> NoError]
    ELSE IF code = 1 THEN [tag |-> "Ok", val |-> [some |-> TRUE, v |-> <<>>],
                           err |-> NoError]
    ELSE KErr(InternalError(IF from_error_code(code).some
                            THEN from_error_code(code).v
                            ELSE "Unknown"))

VerifyMac ==
    \E code \in EngineStatuses :
        /\ facade' = [Facade("verify_mac", NoAddress, "engine",
                             SignalMessage_verify_mac(code))
                        EXCEPT !.status = code]
        /\ UNCHANGED <<preKeys, identities, metadata, last, stored,
                       ctxHandles, storeCtx, records, engine, sessions,
                       misuse, compared>>

(* contains_session over an engine whose session lookup answers any status *)
ContainsSessionStatus ==
    \E addr \in Addresses, code \in BoundaryStatuses :
        /\ storeCtx.clones > 0
        /\ facade' = [Facade("contains_session", addr, "engine",
                             contains_session_match(code, sessions))
                        EXCEPT !.status = code]
        /\ UNCHANGED <<preKeys, identities, metadata, last, stored,
                       ctxHandles, storeCtx, records, engine, sessions,
                       misuse, compared>>

(* Key ordering.  The engine compares two keys of one kind byte by byte
   over their fixed-length encoding and answers the difference at the
   first byte that differs, 0 when none does. *)
CurveKeys == {<<x, y>> : x \in ByteValues, y \in ByteValues}

RECURSIVE key_memcmp(_, _)
key_memcmp(a, b) ==
    IF a = <<>> THEN 0
    ELSE IF Head(a) # Head(b) THEN Head(a) - Head(b)
    ELSE key_memcmp(Tail(a), Tail(b))

ec_public_key_compare(a, b) == key_memcmp(a, b)
ec_private_key_compare(a, b) == key_memcmp(a, b)

PublicKey_cmp_nonstrict(a, b) ==
    LET cmp == ec_public_key_compare(a, b)
    IN  IF cmp <= 0 THEN "Less" ELSE "Greater"

PublicKey_cmp(a, b) ==
    LET cmp == ec_public_key_compare(a, b)
    IN  IF cmp < 0 THEN "Less"
        ELSE IF cmp > 0 THEN "Greater"
        ELSE "Equal"

PublicKey_eq(a, b) == PublicKey_cmp(a, b) = "Equal"

PublicKey_partial_cmp(a, b) == Some(PublicKey_cmp(a, b))

PrivateKey_cmp(a, b) ==
    LET cmp == ec_private_key_compare(a, b)
    IN  IF cmp < 0 THEN "Less"
        ELSE IF cmp > 0 THEN "Greater"
        ELSE "Equal"

PrivateKey_eq(a, b) == PrivateKey_cmp(a, b) = "Equal"

PrivateKey_partial_cmp(a, b) == Some(PrivateKey_cmp(a, b))

NoComparison == [kind |-> "none"]

(* The application compares three public keys pairwise. *)
ComparePublicKeys ==
    \E a \in CurveKeys, b \in CurveKeys, c \in CurveKeys :
        /\ compared' = [kind |-> "public", a |-> a, b |-> b, c |-> c,
                        engine_ab |-> ec_public_key_compare(a, b),
                        ab |-> PublicKey_cmp(a, b),
                        ba |-> PublicKey_cmp(b, a),
                        bc |-> PublicKey_cmp(b, c),
                        ac |-> PublicKey_cmp(a, c),
                        eq |-> PublicKey_eq(a, b),
                        partial |-> PublicKey_partial_cmp(a, b)]
        /\ UNCHANGED <<preKeys, identities, metadata, last, stored,
                       ctxHandles, storeCtx, records, engine, sessions,
                       facade, misuse>>

(* The application compares three private keys pairwise. *)
ComparePrivateKeys ==
    \E a \in CurveKeys, b \in CurveKeys, c \in CurveKeys :
        /\ compared' = [kind |-> "private", a |-> a, b |-> b, c |-> c,
                        engine_ab |-> ec_private_key_compare(a, b),
                        ab |-> PrivateKey_cmp(a, b),
                        ba |-> PrivateKey_cmp(b, a),
                        bc |-> PrivateKey_cmp(b, c),
                        ac |-> PrivateKey_cmp(a, c),
                        eq |-> PrivateKey_eq(a, b),
                        partial |-> PrivateKey_partial_cmp(a, b)]
        /\ UNCHANGED <<preKeys, identities, metadata, last, stored,
                       ctxHandles, storeCtx, records, engine, sessions,
                       facade, misuse>>

----------------------------------------------------------------------------
(* Ownership: Rc<ContextInner>, Rc<StoreContextInner> and the boxes *)

(* ContextInner's drop tears the engine context down; it runs when the last
   Rc<ContextInner> goes. *)
Rc_drop(e) ==
    IF e.strong = 1
    THEN [strong |-> 0, tornDown |-> e.tornDown + 1]
    ELSE [e EXCEPT !.strong = e.strong - 1]

Rc_clone(e) == [e EXCEPT !.strong = e.strong + 1]

(* StoreContext::new keeping a plain pointer to the context *)
StoreContext_new_borrowing(e) == e

StoreContext_new(e) == Rc_clone(e)

(* destroy_func of the pre-key and of the identity adapter: frees the box
   user_data points to, unless it is null. *)
destroy_func(freed, userDataNull) ==
    IF ~userDataNull THEN freed + 1 ELSE freed

identity_destroy_func(freed, userDataNull) ==
    IF ~userDataNull THEN freed + 1 ELSE freed

(* signal_protocol_store_context_destroy calls each registered store's
   destroy_func with its user_data, then frees the store context. *)
signal_protocol_store_context_destroy(sc) ==
    [sc EXCEPT !.destroyed = sc.destroyed + 1,
               !.preKeyFreed = destroy_func(sc.preKeyFreed, FALSE),
               !.identityFreed = identity_destroy_func(sc.identityFreed,
                                                       FALSE)]

(* Dropping a StoreContext that destroys the raw store context each time,
   as a handle that is not reference counted would *)
StoreContext_drop_uncounted(sc, e) ==
    [sc |-> signal_protocol_store_context_destroy(
                [sc EXCEPT !.clones = sc.clones - 1]),
     engine |-> IF sc.clones = 1 THEN Rc_drop(e) ELSE e]

(* Dropping one clone: the last one drops StoreContextInner, whose drop
   destroys the raw store context and then releases its ctx field. *)
StoreContext_drop(sc, e) ==
    IF sc.clones = 1
    THEN [sc |-> signal_protocol_store_context_destroy(
                     [sc EXCEPT !.clones = 0]),
          engine |-> Rc_drop(e)]
    ELSE [sc |-> [sc EXCEPT !.clones = sc.clones - 1], engine |-> e]

StoreContext_clone(sc) == [sc EXCEPT !.clones = sc.clones + 1]

----------------------------------------------------------------------------
(* The application using Context, StoreContext and SessionRecord values *)

CloneContext ==
    /\ ctxHandles > 0
    /\ ctxHandles < MaxHandles
    /\ ctxHandles' = ctxHandles + 1
    /\ engine' = Rc_clone(engine)
    /\ UNCHANGED <<preKeys, identities, metadata, last, stored, storeCtx,
                   records, sessions, facade, misuse, compared>>

DropContext ==
    /\ ctxHandles > 0
    /\ ctxHandles' = ctxHandles - 1
    /\ engine' = Rc_drop(engine)
    /\ UNCHANGED <<preKeys, identities, metadata, last, stored, storeCtx,
                   records, sessions, facade, misuse, compared>>

NewStoreContext ==
    /\ ctxHandles > 0
    /\ ~storeCtx.built
    /\ storeCtx' = [storeCtx EXCEPT !.built = TRUE, !.clones = 1]
    /\ engine' = StoreContext_new(engine)
    /\ UNCHANGED <<preKeys, identities, metadata, last, stored, ctxHandles,
                   records, sessions, facade, misuse, compared>>

CloneStoreContext ==
    /\ storeCtx.clones > 0
    /\ storeCtx.clones < MaxClones
    /\ storeCtx' = StoreContext_clone(storeCtx)
    /\ UNCHANGED <<preKeys, identities, metadata, last, stored, ctxHandles,
                   records, engine, sessions, facade, misuse, compared>>

DropStoreContext ==
    /\ storeCtx.clones > 0
    /\ LET d == StoreContext_drop(storeCtx, engine)
       IN  /\ storeCtx' = d.sc
           /\ engine' = d.engine
    /\ UNCHANGED <<preKeys, identities, metadata, last, stored, ctxHandles,
                   records, sessions, facade, misuse, compared>>

DropSessionRecord ==
    /\ records > 0
    /\ records' = records - 1
    /\ engine' = Rc_drop(engine)
    /\ UNCHANGED <<preKeys, identities, metadata, last, stored, ctxHandles,
                   storeCtx, sessions, facade, misuse, compared>>

SessionFaults == {"none", "err"}

LoadSession ==
    \E addr \in Addresses, fault \in SessionFaults :
        LET r == StoreContext_load_session(sessions, addr, fault)
        IN  /\ storeCtx.clones > 0
            /\ records < MaxRecords
            /\ facade' = Facade("load_session", addr, fault, r)
            /\ sessions' = r.store
            /\ records' = IF r.tag = "Ok" THEN records + 1 ELSE records
            /\ engine' = IF r.tag = "Ok" THEN Rc_clone(engine) ELSE engine
            /\ UNCHANGED <<preKeys, identities, metadata, last, stored,
                           ctxHandles, storeCtx, misuse, compared>>

(* The engine stores a session while it processes a message. *)
StoreSession ==
    \E addr \in Addresses :
        /\ storeCtx.clones > 0
        /\ sessions' = sessions \cup {addr}
        /\ facade' = [NoFacade EXCEPT !.op = "store_session",
                                      !.addr = addr]
        /\ UNCHANGED <<preKeys, identities, metadata, last, stored,
                       ctxHandles, storeCtx, records, engine, misuse,
                       compared>>

ContainsSession ==
    \E addr \in Addresses, fault \in SessionFaults :
        LET r == StoreContext_contains_session(sessions, addr, fault)
        IN  /\ storeCtx.clones > 0
            /\ facade' = Facade("contains_session", addr, fault, r)
            /\ sessions' = r.store
            /\ UNCHANGED <<preKeys, identities, metadata, last, stored,
                           ctxHandles, storeCtx, records, engine, misuse,
                           compared>>

DeleteSession ==
    \E addr \in Addresses, fault \in SessionFaults :
        LET r == StoreContext_delete_session(sessions, addr, fault)
        IN  /\ storeCtx.clones > 0
            /\ facade' = Facade("delete_session", addr, fault, r)
            /\ sessions' = r.store
            /\ UNCHANGED <<preKeys, identities, metadata, last, stored,
                           ctxHandles, storeCtx, records, engine, misuse,
                           compared>>

FacadeGetIdentity ==
    \E addr \in Addresses, fault \in Faults :
        LET r == StoreContext_get_identity(IdStore(identities, metadata),
                                           addr, fault)
            cb == signal_protocol_identity_get_identity(
                      IdStore(identities, metadata), addr, Null, fault)
        IN  /\ storeCtx.clones > 0
            /\ facade' = Facade("get_identity", addr, fault, r)
            /\ last' = Call("get_identity", 0, addr, <<>>, FALSE, fault,
                            Null, Null, 0, cb)
            /\ identities' = r.store.keys
            /\ metadata' = r.store.meta
            /\ misuse' = (misuse \/ storeCtx.identityFreed > 0)
            /\ UNCHANGED <<preKeys, stored, ctxHandles, storeCtx, records,
                           engine, sessions, compared>>

----------------------------------------------------------------------------
(* Initial states *)

InitStores ==
    /\ preKeys = [id \in PreKeyIds |-> None]
    /\ identities = [a \in Addresses |-> None]
    /\ metadata = [a \in Addresses |-> FALSE]
    /\ sessions = {}
    /\ last = NoCall
    /\ stored = [body |-> [id \in PreKeyIds |-> None], removed |-> {}]
    /\ facade = NoFacade
    /\ misuse = FALSE
    /\ compared = NoComparison

(* A StoreContext has been built over the stores and is held by the
   application, next to its Context. *)
InitRegistered ==
    /\ InitStores
    /\ ctxHandles = 1
    /\ storeCtx = [built |-> TRUE, clones |-> 1, destroyed |-> 0,
                   preKeyFreed |-> 0, identityFreed |-> 0]
    /\ records = 0
    /\ engine = [strong |-> 2, tornDown |-> 0]

NextPreKey ==
    \/ LoadPreKey
    \/ StorePreKey(Bodies)
    \/ ContainsPreKey
    \/ RemovePreKey

SpecPreKey == InitRegistered /\ [][NextPreKey]_vars

NextIdentity ==
    \/ GetIdentityKeyPair
    \/ GetLocalRegistrationId
    \/ SaveIdentity(KeyPayloads, Faults)
    \/ IsTrustedIdentity(KeyPayloads)
    \/ GetIdentity

SpecIdentity == InitRegistered /\ [][NextIdentity]_vars

NextAdapter ==
    \/ LoadPreKey
    \/ StorePreKey(ShortPayloads)
    \/ ContainsPreKey
    \/ RemovePreKey
    \/ GetIdentityKeyPair
    \/ GetLocalRegistrationId
    \/ SaveIdentity(ShortPayloads, Faults)
    \/ IsTrustedIdentity(ShortPayloads)
    \/ GetIdentity

SpecAdapter == InitRegistered /\ [][NextAdapter]_vars

(* The application has made its Context and nothing else yet. *)
InitContext ==
    /\ InitStores
    /\ ctxHandles = 1
    /\ storeCtx = [built |-> FALSE, clones |-> 0, destroyed |-> 0,
                   preKeyFreed |-> 0, identityFreed |-> 0]
    /\ records = 0
    /\ engine = [strong |-> 1, tornDown |-> 0]

NextContext ==
    \/ CloneContext
    \/ DropContext
    \/ NewStoreContext
    \/ CloneStoreContext
    \/ DropStoreContext
    \/ DropSessionRecord
    \/ LoadSession
    \/ StoreSession
    \/ ContainsSession
    \/ DeleteSession
    \/ FacadeGetIdentity
    \/ SaveIdentity({<<170>>}, {"none"})

SpecContext == InitContext /\ [][NextContext]_vars

NextKeys ==
    \/ VerifySignature
    \/ CalculateAgreement

SpecKeys == InitContext /\ [][NextKeys]_vars

NextStatus ==
    \/ VerifyMac
    \/ ContainsSessionStatus

SpecStatus == InitRegistered /\ [][NextStatus]_vars

NextOrder ==
    \/ ComparePublicKeys
    \/ ComparePrivateKeys

SpecOrder == InitContext /\ [][NextOrder]_vars

----------------------------------------------------------------------------
(* Claims about the store adapters *)

Answered(op) == last.op = op /\ last.fault = "none" /\ ~last.null

RecordedIdentity(addr) ==
    IdentityKeyStore_get_identity(IdStore(identities, metadata), addr,
                                  "none").val

(* C1: trust on first use.  When is_trusted_identity(addr, key) is answered,
   the engine receives 1 if get_identity(addr) is None, 1 if it is Some(k)
   and key is byte-identical to k, and 0 if it is Some(k) and key differs
   from k. *)
TrustOnFirstUse ==
    Answered("is_trusted_identity") =>
        LET k == RecordedIdentity(last.addr)
        IN  /\ ~k.some => last.status = 1
            /\ (k.some /\ k.v = last.data) => last.status = 1
            /\ (k.some /\ k.v # last.data) => last.status = 0

UntrustedMismatch ==
    /\ Answered("is_trusted_identity")
    /\ RecordedIdentity(last.addr).some
    /\ RecordedIdentity(last.addr).v # last.data
    /\ last.status = 0

(* C2: fault isolation.  When the application implementation panics inside
   any callback, the engine receives the generic failure status
   (InternalError::Unknown), never 0 or 1, the panic does not leave the
   callback, and the engine can make further callback calls. *)
FaultIsolation ==
    last.fault = "panic" =>
        /\ ~last.unwound
        /\ last.status = InternalError_code("Unknown")
        /\ last.status \notin {0, 1}
        /\ EngineCanCall
        /\ ENABLED NextAdapter

ContainsPanicCaught ==
    /\ last.op = "contains_pre_key"
    /\ last.fault = "panic"
    /\ last.status = InternalError_code("Unknown")
    /\ stored.body[last.id].some

(* C3: after store_pre_key(id, body) succeeds, contains_pre_key(id) reports
   1 and load_pre_key(id) succeeds with exactly the body most recently
   stored under id, whatever was stored under other ids since. *)
StoreThenLoad ==
    /\ (Answered("load_pre_key") /\ stored.body[last.id].some) =>
           /\ last.status = SG_SUCCESS
           /\ last.out = Ptr(stored.body[last.id].v)
    /\ (Answered("contains_pre_key") /\ stored.body[last.id].some) =>
           last.status = 1

LoadedAfterOverwrite ==
    /\ Answered("load_pre_key")
    /\ last.status = SG_SUCCESS
    /\ last.out = Ptr(<<170, 187>>)
    /\ \E other \in PreKeyIds \ {last.id} :
           /\ stored.body[other].some
           /\ stored.body[other].v # <<170, 187>>

(* C4: after remove_pre_key(id) succeeds, contains_pre_key(id) reports 0
   and load_pre_key(id) fails with a status that says not-found: one that
   differs from the status of a caught panic and of any other storage
   failure. *)
LoadAfterRemoveIsNotFound ==
    /\ (Answered("contains_pre_key") /\ last.id \in stored.removed) =>
           last.status = 0
    /\ (Answered("load_pre_key") /\ last.id \in stored.removed) =>
           /\ last.status # SG_SUCCESS
           /\ last.status # load_pre_key(preKeys, last.slot, last.id,
                                         "panic").status
           /\ last.status # load_pre_key(preKeys, last.slot, last.id,
                                         "err").status

(* C5: a successful save_identity(addr, key) with a null key pointer or a
   key of length 0 leaves get_identity(addr) = None and changes neither the
   non-key metadata nor the identity of any other address. *)
IdentityDeletion ==
    [][(/\ last'.op = "save_identity"
        /\ last'.status = SG_SUCCESS
        /\ (last'.null \/ last'.data = <<>>))
       => (/\ ~identities'[last'.addr].some
           /\ metadata' = metadata
           /\ \A a \in Addresses \ {last'.addr} :
                  identities'[a] = identities[a])]_vars

DeletedKnownIdentity ==
    /\ last.op = "save_identity"
    /\ last.status = SG_SUCCESS
    /\ last.null
    /\ metadata[last.addr]
    /\ ~RecordedIdentity(last.addr).some
    /\ \E a \in Addresses \ {last.addr} : RecordedIdentity(a).some

----------------------------------------------------------------------------
(* Claims about the StoreContext facade and its lifetime *)

(* C6: StoreContext::get_identity(addr) returns Ok(None) exactly when the
   identity store answers Ok(None), Ok(Some(bytes)) with the stored bytes
   exactly when the store answers Ok(Some(bytes)), and Err exactly when the
   store returns an error or panics. *)
GetIdentityDistinguishes ==
    facade.op = "get_identity" =>
        LET ans == IdentityKeyStore_get_identity(
                       IdStore(identities, metadata), facade.addr,
                       facade.fault)
        IN  /\ (facade.tag = "Ok" /\ ~facade.val.some)
                   <=> (ans.tag = "Ok" /\ ~ans.val.some)
            /\ (facade.tag = "Ok" /\ facade.val.some)
                   <=> (ans.tag = "Ok" /\ ans.val.some)
            /\ (facade.tag = "Ok" /\ facade.val.some)
                   => facade.val = ans.val
            /\ facade.tag = "Err" <=> ans.tag \in {"Err", "Panic"}

GetIdentityFailed ==
    /\ facade.op = "get_identity"
    /\ facade.fault = "panic"
    /\ facade.tag = "Err"
    /\ identities[facade.addr].some

(* C7: load_session(addr) on an address without a stored session returns
   Ok with a fresh record and stores no session; once delete_session(addr)
   has succeeded, contains_session(addr) returns Ok(false). *)
SessionLifecycle ==
    [][/\ (/\ facade'.op = "load_session"
           /\ facade'.fault = "none"
           /\ facade'.addr \notin sessions)
          => (/\ facade'.tag = "Ok"
              /\ facade'.val = FreshRecord
              /\ sessions' = sessions)
       /\ (facade'.op = "delete_session" /\ facade'.tag = "Ok")
          => LET c == StoreContext_contains_session(sessions', facade'.addr,
                                                    "none")
             IN  c.tag = "Ok" /\ ~c.val.some
       /\ (/\ facade.op = "delete_session"
           /\ facade.tag = "Ok"
           /\ facade'.op = "contains_session"
           /\ facade'.fault = "none"
           /\ facade'.addr = facade.addr)
          => (facade'.tag = "Ok" /\ ~facade'.val.some)]_vars

FreshRecordLoaded ==
    /\ facade.op = "load_session"
    /\ facade.tag = "Ok"
    /\ facade.val = FreshRecord
    /\ facade.addr \notin sessions
    /\ sessions # {}
    /\ records > 0

(* C8: while a StoreContext clone, a SessionRecord or a Context is alive,
   the engine context has not been torn down; it is torn down at most
   once, and has been once none of them is left. *)
EngineOutlivesHandles ==
    /\ (storeCtx.clones > 0 \/ records > 0 \/ ctxHandles > 0)
          => (engine.tornDown = 0 /\ engine.strong > 0)
    /\ engine.tornDown <= 1
    /\ (storeCtx.clones = 0 /\ records = 0 /\ ctxHandles = 0)
          => engine.tornDown = 1

StoreContextKeepsEngine ==
    /\ ctxHandles = 0
    /\ storeCtx.clones > 0
    /\ records = 0
    /\ engine.tornDown = 0

(* C9: the boxed stores are freed by destroy_func exactly once, when the
   last clone of the StoreContext is dropped: never while a clone is alive,
   never twice, and no callback runs on a freed box. *)
BoxFreedOnce ==
    /\ storeCtx.clones > 0
          => (/\ storeCtx.destroyed = 0
              /\ storeCtx.preKeyFreed = 0
              /\ storeCtx.identityFreed = 0)
    /\ (storeCtx.built /\ storeCtx.clones = 0)
          => (/\ storeCtx.destroyed = 1
              /\ storeCtx.preKeyFreed = 1
              /\ storeCtx.identityFreed = 1)
    /\ ~storeCtx.built
          => (storeCtx.preKeyFreed = 0 /\ storeCtx.identityFreed = 0)
    /\ ~misuse

BoxFreedAfterLastClone ==
    /\ storeCtx.built
    /\ storeCtx.clones = 0
    /\ storeCtx.preKeyFreed = 1
    /\ storeCtx.identityFreed = 1
    /\ last.op = "save_identity"
    /\ ctxHandles > 0

----------------------------------------------------------------------------
(* Claims about the key operations *)

InvalidSignature == err_msg("Invalid signature")

(* C10: verify_signature returns Ok(()) exactly when the engine reports 1,
   the invalid-signature error exactly when it reports 0, and for every
   other status an error that is not the invalid-signature error: the
   InternalError of the code table, or "unknown error code". *)
VerifySignatureThreeWay ==
    facade.op = "verify_signature" =>
        /\ facade.tag = "Ok" <=> facade.status = 1
        /\ facade.err = InvalidSignature <=> facade.status = 0
        /\ facade.status \notin {0, 1} =>
               /\ facade.tag = "Err"
               /\ facade.err # InvalidSignature
               /\ from_error_code(facade.status).some =>
                      facade.err =
                          InternalError(from_error_code(facade.status).v)
               /\ ~from_error_code(facade.status).some =>
                      facade.err = format_err("Unknown error code: ",
                                              facade.status)

SignatureRejected ==
    /\ facade.op = "verify_signature"
    /\ facade.status = 0
    /\ facade.tag = "Err"
    /\ facade.err = InvalidSignature

(* C11: calculate_agreement returns Err for every engine return value that
   is zero or negative, and Ok only with a secret whose length is the
   positive length the engine reported. *)
AgreementFailureIsErr ==
    facade.op = "calculate_agreement" =>
        /\ facade.status <= 0 => facade.tag = "Err"
        /\ facade.tag = "Ok" =>
               /\ facade.status > 0
               /\ facade.val = Some(as_usize(facade.status))
               /\ ~usize_is_zero(facade.val.v)

Reverse(o) ==
    IF o = "Less" THEN "Greater" ELSE IF o = "Greater" THEN "Less" ELSE o

(* C12: for public and private keys, a == b iff cmp(a, b) is Equal,
   partial_cmp(a, b) is Some(cmp(a, b)), cmp maps the engine's comparison
   result by sign, exactly one of a < b, a == b, a > b holds, cmp(a, b) is
   the reverse of cmp(b, a), and the order is transitive. *)
KeyOrderIsTotal ==
    compared.kind # "none" =>
        /\ compared.eq <=> compared.ab = "Equal"
        /\ compared.partial = Some(compared.ab)
        /\ compared.ab = "Less" <=> compared.engine_ab < 0
        /\ compared.ab = "Equal" <=> compared.engine_ab = 0
        /\ compared.ab = "Greater" <=> compared.engine_ab > 0
        /\ compared.ab \in {"Less", "Equal", "Greater"}
        /\ compared.ba = Reverse(compared.ab)
        /\ (compared.ab = "Less" /\ compared.bc = "Less")
               => compared.ac = "Less"
        /\ (compared.ab = "Equal" /\ compared.bc = "Equal")
               => compared.ac = "Equal"
        /\ (compared.ab = "Equal") => compared.ac = compared.bc
        /\ (compared.bc = "Equal") => compared.ac = compared.ab

(* Three distinct public keys in ascending order, compared through keys
   that agree on their first byte. *)
AscendingKeysCompared ==
    /\ compared.kind = "public"
    /\ compared.ab = "Less" /\ compared.bc = "Less" /\ compared.ac = "Less"
    /\ compared.ba = "Greater"
    /\ compared.a[1] = compared.b[1]
    /\ ~compared.eq

(* C13: for contains_session and verify_mac, status 0 yields Ok(false),
   status 1 yields Ok(true), and every other status yields Err: the error
   kind of the code table when the status is in it, the unknown kind when it
   is not.  No status other than 0 or 1 yields Ok. *)
BooleanStatusMapping ==
    (facade.op \in {"contains_session", "verify_mac"}
     /\ facade.fault = "engine") =>
        /\ facade.status = 0 => (facade.tag = "Ok" /\ ~facade.val.some)
        /\ facade.status = 1 => (facade.tag = "Ok" /\ facade.val.some)
        /\ facade.status \notin {0, 1} =>
               /\ facade.tag = "Err"
               /\ facade.err.kind = "InternalError"
               /\ \A e \in InternalErrors :
                      InternalError_code(e) = facade.status
                          => facade.err.text = e
               /\ (\A e \in InternalErrors :
                       InternalError_code(e) # facade.status)
                          => facade.err.text = "Unknown"
        /\ facade.tag = "Ok" => facade.status \in {0, 1}

(* verify_mac over a positive status that is not in the code table *)
UnmappedMacStatus ==
    /\ facade.op = "verify_mac"
    /\ facade.status = 2
    /\ facade.tag = "Err"
    /\ facade.err = InternalError("Unknown")

OutParamOps ==
    {"load_pre_key", "get_identity_key_pair", "get_local_registration_id",
     "get_identity"}

SlotsUntouched ==
    /\ last.out = last.slot
    /\ last.out2 = last.slot2
    /\ last.regid = last.reg

(* C14: when the application implementation returns an error or panics,
   load_pre_key, get_identity_key_pair, get_local_registration_id and
   get_identity return a failure status and leave every output slot of the
   engine as it was; get_identity_key_pair writes both slots or neither;
   get_identity leaves identity_data as it was when the store answers
   None. *)
OutParamsOnlyOnSuccess ==
    last.op \in OutParamOps =>
        /\ last.fault # "none" =>
               (last.status < 0 /\ SlotsUntouched)
        /\ (last.op = "load_pre_key" /\ last.status # SG_SUCCESS)
               => SlotsUntouched
        /\ last.op = "get_identity_key_pair" =>
               LET pair == IdentityKeyStore_identity_key_pair(
                               IdStore(identities, metadata), "none")
               IN  \/ /\ last.status = SG_SUCCESS
                      /\ last.out = Ptr(pair.val.v)
                      /\ last.out2 = Ptr(pair.val2.v)
                   \/ /\ last.status # SG_SUCCESS
                      /\ SlotsUntouched
        /\ (last.op = "get_identity" /\ last.fault = "none"
            /\ ~RecordedIdentity(last.addr).some)
               => (last.status = 0 /\ SlotsUntouched)

(* load_pre_key panicked while the engine's record slot held a buffer *)
FailedLoadKeepsSlot ==
    /\ last.op = "load_pre_key"
    /\ last.fault = "panic"
    /\ last.slot = Ptr(<<187>>)
    /\ last.out = Ptr(<<187>>)
    /\ last.status = SG_ERR_UNKNOWN

====
